---- MODULE Spec2Model ----
(***************************************************************************)
(* Named-reference dependency viewer (src/app.py).                         *)
(*                                                                         *)
(* Text is modelled as a sequence of one-character strings, so that the    *)
(* regular expressions of simplify_formula and find_dependencies can be    *)
(* evaluated position by position.  A Python dict is modelled as a         *)
(* sequence of <<key, value>> pairs with distinct keys, in insertion       *)
(* order.                                                                  *)
(***************************************************************************)
EXTENDS Integers, Sequences, FiniteSets, TLC

VARIABLES
    pc,                  \* position of the script run
    uploaded_files,      \* st.file_uploader result: sequence of [name, wb]
    idx,                 \* number of uploaded files the merge loop has consumed
    combined_named_refs, \* dict label -> info, built by the merge loop
    errors,              \* file names reported by st.error in the merge loop
    dependencies,        \* result of find_dependencies
    failing,             \* prompts for which the chat completion call raises
    rows,                \* result of generate_ai_outputs
    final_script,        \* result of generate_end_to_end_python
    formula,             \* argument of simplify_formula
    once,                \* simplify_formula(formula)
    twice                \* simplify_formula(once)

vars == <<pc, uploaded_files, idx, combined_named_refs, errors, dependencies,
          failing, rows, final_script, formula, once, twice>>

-----------------------------------------------------------------------------
(* Sequences and text *)

UpperCase == {"A", "B", "C", "D", "E", "F", "G", "H", "I", "J", "K", "L", "M",
              "N", "O", "P", "Q", "R", "S", "T", "U", "V", "W", "X", "Y", "Z"}
LowerCase == {"a", "b", "c", "d", "e", "f", "g", "h", "i", "j", "k", "l", "m",
              "n", "o", "p", "q", "r", "s", "t", "u", "v", "w", "x", "y", "z"}

Digits == {"0", "1", "2", "3", "4", "5", "6", "7", "8", "9"}

Max(S) == CHOOSE m \in S : \A n \in S : n <= m

Range(s) == {s[i] : i \in 1..Len(s)}

\* s[a..b] as a sequence; empty when a > b
Slice(s, a, b) == [i \in 1..(IF b >= a THEN b - a + 1 ELSE 0) |-> s[a + i - 1]]

\* text s holds the literal lit at position i
HasAt(s, i, lit) ==
    /\ i >= 1
    /\ i + Len(lit) - 1 <= Len(s)
    /\ \A k \in 1..Len(lit) : s[i + k - 1] = lit[k]

\* sep.join(list)
RECURSIVE Join(_, _)
Join(sep, list) ==
    IF list = <<>> THEN <<>>
    ELSE IF Len(list) = 1 THEN list[1]
    ELSE list[1] \o sep \o Join(sep, Tail(list))

\* str.startswith
StartsWith(s, lit) == HasAt(s, 1, lit)

\* str.strip(): leading and trailing blanks removed
RECURSIVE LStrip(_)
LStrip(s) == IF s # <<>> /\ Head(s) = " " THEN LStrip(Tail(s)) ELSE s

RECURSIVE RStrip(_)
RStrip(s) ==
    IF s # <<>> /\ s[Len(s)] = " " THEN RStrip(SubSeq(s, 1, Len(s) - 1)) ELSE s

Strip(s) == RStrip(LStrip(s))

\* str.replace(ch, ""): every occurrence of the character removed
RECURSIVE RemoveChar(_, _)
RemoveChar(s, ch) ==
    IF s = <<>> THEN <<>>
    ELSE IF Head(s) = ch THEN RemoveChar(Tail(s), ch)
    ELSE <<Head(s)>> \o RemoveChar(Tail(s), ch)

\* str.split(ch)[-1]: the text after the last occurrence of ch
AfterLast(s, ch) ==
    LET at == {i \in 1..Len(s) : s[i] = ch}
    IN  IF at = {} THEN s ELSE Slice(s, Max(at) + 1, Len(s))

\* str.split(ch)[0]: the text before the first occurrence of ch
BeforeFirst(s, ch) ==
    LET at == {i \in 1..Len(s) : s[i] = ch}
    IN  IF at = {} THEN s ELSE Slice(s, 1, (CHOOSE i \in at : \A j \in at : i <= j) - 1)

-----------------------------------------------------------------------------
(* simplify_formula: the two re.sub calls *)

XlsxQuoteBang == <<".", "x", "l", "s", "x", "'", "!">>

\* Positions at which a match of '[^']+\.xlsx'! starting at i can end:
\* a quote at i, k >= 1 characters other than a quote, then .xlsx'!
QuotedEnds(s, i) ==
    IF i > Len(s) \/ s[i] # "'" THEN {}
    ELSE {i + k + Len(XlsxQuoteBang) : k \in
            {k \in 1..Len(s) :
                /\ \A j \in 1..k : i + j <= Len(s) /\ s[i + j] # "'"
                /\ HasAt(s, i + k + 1, XlsxQuoteBang)}}

\* Positions at which a match of \[[^\]]+\][^!]*! starting at i can end:
\* [ at i, k >= 1 characters other than ], then ], m >= 0 characters other
\* than !, then !
BracketEnds(s, i) ==
    IF i > Len(s) \/ s[i] # "[" THEN {}
    ELSE {e \in (i + 1)..Len(s) :
            /\ s[e] = "!"
            /\ \E c \in (i + 2)..(e - 1) :
                  /\ s[c] = "]"
                  /\ \A j \in (i + 1)..(c - 1) : s[j] # "]"
                  /\ \A j \in (c + 1)..(e - 1) : s[j] # "!"}

\* re.sub(pattern, "", s) for the quoted pattern, scanning from position i:
\* leftmost match first, the quantifiers greedy, the scan resuming after it
RECURSIVE SubQuoted(_, _)
SubQuoted(s, i) ==
    IF i > Len(s) THEN <<>>
    ELSE IF QuotedEnds(s, i) # {} THEN SubQuoted(s, Max(QuotedEnds(s, i)) + 1)
    ELSE <<s[i]>> \o SubQuoted(s, i + 1)

RECURSIVE SubBracket(_, _)
SubBracket(s, i) ==
    IF i > Len(s) THEN <<>>
    ELSE IF BracketEnds(s, i) # {} THEN SubBracket(s, Max(BracketEnds(s, i)) + 1)
    ELSE <<s[i]>> \o SubBracket(s, i + 1)

simplify_formula(f) ==
    IF f = <<>> THEN <<>>
    ELSE SubBracket(SubQuoted(f, 1), 1)

-----------------------------------------------------------------------------
(* Inputs of the normalizer run: "=" followed by up to n pieces *)

MaxFragments == 6

Fragments ==
    { <<"'">>, <<"a">>, <<".", "x", "l", "s", "x", "'", "!">>, <<"[">>, <<"]", "!">> }

RECURSIVE FragmentTexts(_)
FragmentTexts(n) ==
    IF n = 0 THEN {<<>>}
    ELSE LET shorter == FragmentTexts(n - 1)
         IN  shorter \cup {t \o g : t \in shorter, g \in Fragments}

FormulaTexts(n) == {<<"=">> \o t : t \in FragmentTexts(n)}

-----------------------------------------------------------------------------
(* Python dicts: sequences of <<key, value>> pairs, in insertion order *)

Keys(d) == [i \in 1..Len(d) |-> d[i][1]]

KeySet(d) == {d[i][1] : i \in 1..Len(d)}

Has(d, k) == k \in KeySet(d)

Get(d, k) == d[CHOOSE i \in 1..Len(d) : d[i][1] = k][2]

\* d[k] = v: an existing key keeps its place and takes the new value
Put(d, k, v) ==
    IF Has(d, k)
    THEN [i \in 1..Len(d) |-> IF d[i][1] = k THEN <<k, v>> ELSE d[i]]
    ELSE Append(d, <<k, v>>)

\* d.update(other)
RECURSIVE Update(_, _)
Update(d, other) ==
    IF other = <<>> THEN d
    ELSE Update(Put(d, Head(other)[1], Head(other)[2]), Tail(other))

-----------------------------------------------------------------------------
(* extract_named_references *)

\* sheet[top_left_cell] yields a single cell only for letters followed by a
\* row number; any other key raises, or yields a tuple whose .value raises
IsCellCoordinate(c) ==
    \E n \in 1..(Len(c) - 1) :
        /\ \A i \in 1..n : c[i] \in UpperCase
        /\ \A i \in (n + 1)..Len(c) : c[i] \in Digits
        /\ c[n + 1] # "0"

\* coord = ref.replace("$", "").split("!")[-1]; coord.split(":")[0]
TopLeftCell(ref) == BeforeFirst(AfterLast(RemoveChar(ref, "$"), "!"), ":")

NoValue == [type |-> "none", text |-> <<>>]

\* sheet[top_left_cell].value: a cell never written holds None
CellValue(wb, sheet_name, top_left_cell) ==
    IF top_left_cell \in DOMAIN wb.sheets[sheet_name]
    THEN wb.sheets[sheet_name][top_left_cell]
    ELSE NoValue

\* the try block raises: wb[sheet_name] of a missing sheet, or a key that is
\* no cell coordinate
DestinationRaises(wb, dest) ==
    \/ dest.sheet_name \notin DOMAIN wb.sheets
    \/ ~IsCellCoordinate(TopLeftCell(dest.ref))

\* raw_formula: None is modelled as the empty text (both are falsy)
RawFormula(value) ==
    IF value.type = "str" /\ StartsWith(value.text, <<"=">>) THEN Strip(value.text)
    ELSE IF value.type = "array" THEN Strip(value.text)
    ELSE <<>>

Formulas(value) ==
    LET raw_formula == RawFormula(value)
    IN  IF raw_formula # <<>> /\ StartsWith(raw_formula, <<"=">>)
        THEN <<simplify_formula(raw_formula)>>
        ELSE <<>>

\* a handler that lets the exception leave the function
OnDestinationErrorReraised(named_refs, name, dest) ==
    [raised |-> TRUE, named_refs |-> named_refs]

\* the except branch: the error is written out, the mapping is left alone
\* and the loop goes on (raised: an exception leaves the function)
OnDestinationError(named_refs, name, dest) ==
    [raised |-> FALSE, named_refs |-> named_refs]

\* the body of the loop over dn.destinations
ProcessDestination(named_refs, wb, name, dest, file_label) ==
    IF DestinationRaises(wb, dest) THEN OnDestinationError(named_refs, name, dest)
    ELSE [raised     |-> FALSE,
          named_refs |->
            Put(named_refs, name,
                [sheet    |-> dest.sheet_name,
                 ref      |-> dest.ref,
                 formulas |-> Formulas(CellValue(wb, dest.sheet_name,
                                                 TopLeftCell(dest.ref))),
                 file     |-> file_label])]

RECURSIVE ProcessDestinations(_, _, _, _, _)
ProcessDestinations(named_refs, wb, name, dests, file_label) ==
    IF dests = <<>> THEN [raised |-> FALSE, named_refs |-> named_refs]
    ELSE LET step == ProcessDestination(named_refs, wb, name, Head(dests), file_label)
         IN  IF step.raised THEN step
             ELSE ProcessDestinations(step.named_refs, wb, name, Tail(dests), file_label)

\* the loop over wb.defined_names, from the names dns still to visit
RECURSIVE ProcessNames(_, _, _, _)
ProcessNames(named_refs, wb, dns, file_label) ==
    IF dns = <<>> THEN [raised |-> FALSE, named_refs |-> named_refs]
    ELSE LET dn == Head(dns)
         IN  IF dn.is_external \/ ~dn.attr_text
             THEN ProcessNames(named_refs, wb, Tail(dns), file_label)
             ELSE LET step == ProcessDestinations(named_refs, wb, dn.name,
                                                  dn.destinations, file_label)
                  IN  IF step.raised THEN step
                      ELSE ProcessNames(step.named_refs, wb, Tail(dns), file_label)

extract_named_references(wb, file_label) ==
    ProcessNames(<<>>, wb, wb.defined_names, file_label)

-----------------------------------------------------------------------------
(* find_dependencies *)

\* \w of the re module
IsWordChar(c) == c \in UpperCase \cup LowerCase \cup Digits \cup {"_"}

\* \b at position p of text s, that is between s[p-1] and s[p]
WordBoundary(s, p) ==
    (p > 1 /\ IsWordChar(s[p - 1])) # (p <= Len(s) /\ IsWordChar(s[p]))

\* the label as the pattern matches it: re.escape makes it a literal, and no
\* flag is passed to re.search, so the characters are compared as they are
PatternMatchesAt(label, text, i) == HasAt(text, i, label)

\* re.search(rf"\b{re.escape(other_label)}\b", formula_text)
SearchLabel(other_label, formula_text) ==
    \E i \in 1..Len(formula_text) :
        /\ WordBoundary(formula_text, i)
        /\ PatternMatchesAt(other_label, formula_text, i)
        /\ WordBoundary(formula_text, i + Len(other_label))

\* a scan that does not skip the target's own label
SkipLabelNever(other_label, target_label) == FALSE

\* if other_label == target_label: continue
SkipLabel(other_label, target_label) == other_label = target_label

\* defaultdict(list): a missing key reads as the empty list
GetOr(d, k, default) == IF Has(d, k) THEN Get(d, k) ELSE default

\* the inner loop: dependencies[target_label].append(other_label)
RECURSIVE ScanLabels(_, _, _, _)
ScanLabels(deps, target_label, formula_text, labels) ==
    IF labels = <<>> THEN deps
    ELSE LET other_label == Head(labels)
         IN  IF SkipLabel(other_label, target_label)
             THEN ScanLabels(deps, target_label, formula_text, Tail(labels))
             ELSE IF SearchLabel(other_label, formula_text)
             THEN ScanLabels(
                    Put(deps, target_label,
                        Append(GetOr(deps, target_label, <<>>), other_label)),
                    target_label, formula_text, Tail(labels))
             ELSE ScanLabels(deps, target_label, formula_text, Tail(labels))

RECURSIVE ScanTargets(_, _, _)
ScanTargets(deps, named_refs, items) ==
    IF items = <<>> THEN deps
    ELSE LET target_label == Head(items)[1]
             info         == Head(items)[2]
             formula_text == Join(<<" ">>, info.formulas)
         IN  ScanTargets(ScanLabels(deps, target_label, formula_text, Keys(named_refs)),
                         named_refs, Tail(items))

find_dependencies(named_refs) == ScanTargets(<<>>, named_refs, named_refs)

-----------------------------------------------------------------------------
(* topological_sort *)

\* the <<node, dep>> pairs in the order the first loop visits them
RECURSIVE EdgeList(_)
EdgeList(items) ==
    IF items = <<>> THEN <<>>
    ELSE [i \in 1..Len(Head(items)[2]) |-> <<Head(items)[1], Head(items)[2][i]>>]
         \o EdgeList(Tail(items))

\* graph[dep].append(node); in_degree[node] += 1
RECURSIVE CountEdges(_, _)
CountEdges(acc, edges) ==
    IF edges = <<>> THEN acc
    ELSE LET node == Head(edges)[1]
             dep  == Head(edges)[2]
         IN  CountEdges(
                [graph     |-> Put(acc.graph, dep, Append(GetOr(acc.graph, dep, <<>>), node)),
                 in_degree |-> Put(acc.in_degree, node, GetOr(acc.in_degree, node, 0) + 1)],
                Tail(edges))

\* the loop over graph[node]: decrement, and enqueue what reaches zero
RECURSIVE Release(_, _)
Release(acc, neighbors) ==
    IF neighbors = <<>> THEN acc
    ELSE LET neighbor == Head(neighbors)
             degree   == GetOr(acc.in_degree, neighbor, 0) - 1
         IN  Release(
                [in_degree |-> Put(acc.in_degree, neighbor, degree),
                 queue     |-> IF degree = 0 THEN Append(acc.queue, neighbor)
                               ELSE acc.queue],
                Tail(neighbors))

\* the while loop over the queue
RECURSIVE Drain(_, _, _, _)
Drain(queue, in_degree, graph, sorted_order) ==
    IF queue = <<>> THEN sorted_order
    ELSE LET node == Head(queue)
             next == Release([in_degree |-> in_degree, queue |-> Tail(queue)],
                             GetOr(graph, node, <<>>))
         IN  Drain(next.queue, next.in_degree, graph, Append(sorted_order, node))

\* [n for n in dependencies if in_degree[n] == 0]
ZeroInDegree(deps, in_degree) ==
    SelectSeq(Keys(deps), LAMBDA n : GetOr(in_degree, n, 0) = 0)

topological_sort(deps) ==
    LET built == CountEdges([graph |-> <<>>, in_degree |-> <<>>], EdgeList(deps))
    IN  Drain(ZeroInDegree(deps, built.in_degree), built.in_degree, built.graph, <<>>)

-----------------------------------------------------------------------------
(* call_openai, generate_ai_outputs, generate_end_to_end_python *)

\* a prompt: what is asked, of which formula, and for the script emitter the
\* reference name and the context lines
Prompt(task, name, formula_text, context) ==
    [task |-> task, name |-> name, formula |-> formula_text, context |-> context]

NoPrompt == Prompt("none", <<>>, <<>>, <<>>)

\* the strings the emitters put in their output: a completion of a prompt,
\* the "(Error: ...)" placeholder, "No formula." and ""
Completion(prompt)  == [kind |-> "completion", prompt |-> prompt]
ErrorText(prompt)   == [kind |-> "error", prompt |-> prompt]
NoFormulaText       == [kind |-> "no_formula", prompt |-> NoPrompt]
EmptyText           == [kind |-> "empty", prompt |-> NoPrompt]

\* a call without the try block: the exception reaches the caller
call_openai_unguarded(prompt, fails) ==
    IF prompt \in fails
    THEN [raised |-> TRUE, text |-> ErrorText(prompt)]
    ELSE [raised |-> FALSE, text |-> Completion(prompt)]

\* try: the completion; except Exception as e: return f"(Error: {e})"
call_openai(prompt, fails) ==
    IF prompt \in fails
    THEN [raised |-> FALSE, text |-> ErrorText(prompt)]
    ELSE [raised |-> FALSE, text |-> Completion(prompt)]

\* " + ".join(formulas)
CombinedFormula(info) == Join(<<" ", "+", " ">>, info.formulas)

\* the loop of generate_ai_outputs over named_refs.items()
RECURSIVE AppendRows(_, _, _)
AppendRows(results, items, fails) ==
    IF items = <<>> THEN [raised |-> FALSE, rows |-> results]
    ELSE LET label            == Head(items)[1]
             combined_formula == CombinedFormula(Head(items)[2])
             doc == call_openai(Prompt("explain", <<>>, combined_formula, <<>>), fails)
             py  == call_openai(Prompt("translate", <<>>, combined_formula, <<>>), fails)
         IN  IF combined_formula = <<>>
             THEN AppendRows(Append(results,
                                [label |-> label, doc |-> NoFormulaText,
                                 excel |-> combined_formula, py |-> EmptyText]),
                             Tail(items), fails)
             ELSE IF doc.raised \/ py.raised
             THEN [raised |-> TRUE, rows |-> results]
             ELSE AppendRows(Append(results,
                                [label |-> label, doc |-> doc.text,
                                 excel |-> combined_formula, py |-> py.text]),
                             Tail(items), fails)

generate_ai_outputs(named_refs, fails) == AppendRows(<<>>, named_refs, fails)

\* named_refs[n].get('formulas', [''])[0] raises IndexError when the list of
\* n is empty: the key "formulas" is always present
ContextRaises(named_refs, order, name) ==
    \E i \in 1..Len(order) :
        order[i] # name /\ Get(named_refs, order[i]).formulas = <<>>

\* the context lines: "{n}: {first formula of n}" for every other n of order
Context(named_refs, order, name) ==
    LET others == SelectSeq(order, LAMBDA n : n # name)
    IN  [i \in 1..Len(others) |-> <<others[i], Get(named_refs, others[i]).formulas[1]>>]

\* the lines of the script, one record each
Line(kind, name, text) == [kind |-> kind, name |-> name, text |-> text]

\* the loop of generate_end_to_end_python over order, from position i
RECURSIVE AppendLines(_, _, _, _, _)
AppendLines(lines, named_refs, order, i, fails) ==
    IF i > Len(order) THEN [raised |-> FALSE, lines |-> lines]
    ELSE LET name         == order[i]
             formula_text == CombinedFormula(Get(named_refs, name))
         IN  IF formula_text = <<>>
             THEN AppendLines(lines \o <<Line("input_comment", name, EmptyText),
                                         Line("input", name, EmptyText),
                                         Line("blank", <<>>, EmptyText)>>,
                              named_refs, order, i + 1, fails)
             ELSE IF ContextRaises(named_refs, order, name)
             THEN [raised |-> TRUE, lines |-> lines]
             ELSE LET full_prompt == Prompt("recreate", name, formula_text,
                                            Context(named_refs, order, name))
                      python_translation == call_openai(full_prompt, fails)
                  IN  IF python_translation.raised
                      THEN [raised |-> TRUE, lines |-> lines]
                      ELSE AppendLines(
                             lines \o <<Line("comment", name, EmptyText),
                                        Line("excel", name, EmptyText),
                                        Line("assign", name, python_translation.text),
                                        Line("blank", <<>>, EmptyText)>>,
                             named_refs, order, i + 1, fails)

generate_end_to_end_python(named_refs, deps, fails) ==
    AppendLines(<<Line("header", <<>>, EmptyText)>>, named_refs,
                topological_sort(deps), 1, fails)

-----------------------------------------------------------------------------
(* Inputs: workbooks as the workbook library presents them *)

MaxFiles == 2
MaxNames == 2
MaxDest  == 2

RowChars == <<"1", "2", "3", "4", "5", "6", "7", "8", "9">>

FileNames == <<"book1.xlsx", "book2.xlsx", "book3.xlsx", "book4.xlsx">>

Text(type, chars) == [type |-> type, text |-> chars]

NumberValue == Text("number", <<>>)

Destination(sheet_name, ref) == [sheet_name |-> sheet_name, ref |-> ref]

DefinedName(name, is_external, attr_text, destinations) ==
    [name |-> name, is_external |-> is_external, attr_text |-> attr_text,
     destinations |-> destinations]

EmptyWorkbook == [defined_names |-> <<>>, sheets |-> [sh \in {"Sheet1"} |-> <<>>]]

File(name, readable, wb) == [name |-> name, readable |-> readable, wb |-> wb]

\* the elements of a set of numbers in increasing order
RECURSIVE Ascending(_)
Ascending(S) ==
    IF S = {} THEN <<>>
    ELSE LET least == CHOOSE m \in S : \A n \in S : m <= n
         IN  <<least>> \o Ascending(S \ {least})

(* Workbooks of the whole run: every name is bound to one cell of column A *)

Base  == <<"B", "a", "s", "e">>
Tax   == <<"T", "a", "x">>
Total == <<"T", "o", "t", "a", "l">>

LabelPool == <<Base, Tax, Total>>

BaseTimesRate == <<"=", "B", "a", "s", "e", "*", "0", ".", "2">>
BasePlusTax   == <<"=", "B", "a", "s", "e", "+", "T", "a", "x">>
LowerBaseMyTax == <<"=", "b", "a", "s", "e", "+", "M", "y", "T", "a", "x">>

CellPool ==
    { NumberValue, Text("str", BaseTimesRate), Text("str", BasePlusTax),
      Text("str", LowerBaseMyTax) }

\* the workbook whose i-th defined name is labels[i], bound to Sheet1!$A$i,
\* a cell that holds values[i]
ColumnWorkbook(labels, values) ==
    [defined_names |->
        [i \in 1..Len(labels) |->
            DefinedName(labels[i], FALSE, TRUE,
                        <<Destination("Sheet1", <<"$", "A", "$", RowChars[i]>>)>>)],
     sheets |->
        [sh \in {"Sheet1"} |->
            [c \in {<<"A", RowChars[i]>> : i \in 1..Len(labels)} |->
                values[CHOOSE i \in 1..Len(labels) : c = <<"A", RowChars[i]>>]]]]

\* the workbooks of up to n names
ColumnWorkbooks(n) ==
    UNION { { ColumnWorkbook([i \in 1..Len(Ascending(S)) |-> LabelPool[Ascending(S)[i]]],
                             values) :
                values \in [1..Cardinality(S) -> CellPool] } :
            S \in {T \in SUBSET (1..Len(LabelPool)) : Cardinality(T) <= n} }

\* an uploaded file: one that load_workbook rejects, or a workbook
FilesNamed(name, n) ==
    {File(name, FALSE, EmptyWorkbook)}
        \cup {File(name, TRUE, wb) : wb \in ColumnWorkbooks(n)}

\* the uploads of up to n files, each of up to k names
RECURSIVE Uploads(_, _)
Uploads(n, k) ==
    IF n = 0 THEN {<<>>}
    ELSE LET fewer == Uploads(n - 1, k)
         IN  fewer \cup {Append(u, f) : u \in {v \in fewer : Len(v) = n - 1},
                                         f \in FilesNamed(FileNames[n], k)}

\* the prompts generate_ai_outputs can send for the cells of CellPool
AiPrompts ==
    {Prompt(task, <<>>, Join(<<" ", "+", " ">>, Formulas(value)), <<>>) :
        task \in {"explain", "translate"},
        value \in {v \in CellPool : Formulas(v) # <<>>}}

(* Workbooks of the extraction run: names with several destinations, some   *)
(* of which cannot be resolved                                              *)

Rate == <<"R", "a", "t", "e">>
Fee  == <<"F", "e", "e">>

ExtractSheets ==
    [sh \in {"Sheet1"} |->
        (<<"A", "1">> :> Text("str", <<"=", "F", "e", "e", "*", "2", " ">>))
     @@ (<<"B", "1">> :> NumberValue)
     @@ (<<"C", "1">> :> Text("array",
            <<"=", "[", "b", ".", "x", "l", "s", "x", "]", "S", "!", "A", "1",
              "+", "R", "a", "t", "e">>))]

DestinationPool ==
    { Destination("Sheet1", <<"$", "A", "$", "1">>),
      Destination("Sheet1", <<"$", "B", "$", "1", ":", "$", "B", "$", "3">>),
      Destination("Sheet1", <<"$", "C", "$", "1">>),
      Destination("Gone", <<"$", "A", "$", "1">>),
      Destination("Sheet1", <<"#", "R", "E", "F", "!">>) }

\* the lists of up to n distinct destinations
RECURSIVE DestinationLists(_)
DestinationLists(n) ==
    IF n = 0 THEN {<<>>}
    ELSE LET fewer == DestinationLists(n - 1)
         IN  fewer \cup UNION {{Append(l, d) : d \in DestinationPool \ Range(l)} :
                                 l \in fewer}

DefinedNames(name, n) ==
    {DefinedName(name, FALSE, TRUE, l) : l \in DestinationLists(n)}
        \cup {DefinedName(name, TRUE, TRUE,
                          <<Destination("Sheet1", <<"$", "A", "$", "1">>)>>),
              DefinedName(name, FALSE, FALSE, <<>>)}

\* the workbooks whose names have up to n destinations
ExtractWorkbooks(n) ==
    {[defined_names |-> dns, sheets |-> ExtractSheets] :
        dns \in {<<>>}
            \cup {<<d>> : d \in DefinedNames(Rate, n) \cup DefinedNames(Fee, n)}
            \cup {<<d, e>> : d \in DefinedNames(Rate, n), e \in DefinedNames(Fee, n)}
            \cup {<<e, d>> : d \in DefinedNames(Rate, n), e \in DefinedNames(Fee, n)}}

-----------------------------------------------------------------------------
(* The script run *)

Idle(files, fails) ==
    /\ pc = "merge"
    /\ uploaded_files = files
    /\ idx = 0
    /\ combined_named_refs = <<>>
    /\ errors = <<>>
    /\ dependencies = <<>>
    /\ failing = fails
    /\ rows = [raised |-> FALSE, rows |-> <<>>]
    /\ final_script = [raised |-> FALSE, lines |-> <<>>]
    /\ formula = <<>>
    /\ once = <<>>
    /\ twice = <<>>

\* up to MaxFiles files; the text service answers every prompt or none
Init ==
    \E files \in Uploads(MaxFiles, MaxNames), fails \in {{}, AiPrompts} : Idle(files, fails)

\* at most one file; the text service fails on any set of prompts
InitSingle ==
    \E files \in Uploads(1, MaxNames), fails \in SUBSET AiPrompts : Idle(files, fails)

\* one workbook whose names have up to MaxDest destinations
InitExtract ==
    \E wb \in ExtractWorkbooks(MaxDest) : Idle(<<File(FileNames[1], TRUE, wb)>>, {})

\* one formula text given to simplify_formula
InitNormalize ==
    /\ pc = "normalize"
    /\ uploaded_files = <<>>
    /\ idx = 0
    /\ combined_named_refs = <<>>
    /\ errors = <<>>
    /\ dependencies = <<>>
    /\ failing = {}
    /\ rows = [raised |-> FALSE, rows |-> <<>>]
    /\ final_script = [raised |-> FALSE, lines |-> <<>>]
    /\ formula \in FormulaTexts(MaxFragments)
    /\ once = <<>>
    /\ twice = <<>>

\* else: st.info("Upload one or more .xlsx files to begin.")
NothingUploaded ==
    /\ pc = "merge"
    /\ uploaded_files = <<>>
    /\ pc' = "done"
    /\ UNCHANGED <<uploaded_files, idx, combined_named_refs, errors, dependencies,
                   failing, rows, final_script, formula, once, twice>>

\* one turn of the merge loop: load_workbook, extract_named_references,
\* combined_named_refs.update(refs); any exception is reported by st.error
ReadFile ==
    /\ pc = "merge"
    /\ idx < Len(uploaded_files)
    /\ LET uploaded_file == uploaded_files[idx + 1]
           refs == extract_named_references(uploaded_file.wb, uploaded_file.name)
       IN  IF ~uploaded_file.readable \/ refs.raised
           THEN /\ errors' = Append(errors, uploaded_file.name)
                /\ UNCHANGED combined_named_refs
           ELSE /\ combined_named_refs' = Update(combined_named_refs, refs.named_refs)
                /\ UNCHANGED errors
    /\ idx' = idx + 1
    /\ UNCHANGED <<pc, uploaded_files, dependencies, failing, rows, final_script,
                   formula, once, twice>>

\* else: st.warning("No named references found.")
NoReferences ==
    /\ pc = "merge"
    /\ uploaded_files # <<>>
    /\ idx = Len(uploaded_files)
    /\ combined_named_refs = <<>>
    /\ pc' = "done"
    /\ UNCHANGED <<uploaded_files, idx, combined_named_refs, errors, dependencies,
                   failing, rows, final_script, formula, once, twice>>

\* dependencies = find_dependencies(combined_named_refs)
FindDependencies ==
    /\ pc = "merge"
    /\ uploaded_files # <<>>
    /\ idx = Len(uploaded_files)
    /\ combined_named_refs # <<>>
    /\ dependencies' = find_dependencies(combined_named_refs)
    /\ pc' = "explain"
    /\ UNCHANGED <<uploaded_files, idx, combined_named_refs, errors, failing, rows,
                   final_script, formula, once, twice>>

\* rows = generate_ai_outputs(combined_named_refs); an exception ends the run
GenerateAiOutputs ==
    /\ pc = "explain"
    /\ rows' = generate_ai_outputs(combined_named_refs, failing)
    /\ pc' = IF rows'.raised THEN "crashed" ELSE "script"
    /\ UNCHANGED <<uploaded_files, idx, combined_named_refs, errors, dependencies,
                   failing, final_script, formula, once, twice>>

\* final_script = generate_end_to_end_python(combined_named_refs, dependencies)
GenerateEndToEndPython ==
    /\ pc = "script"
    /\ final_script' = generate_end_to_end_python(combined_named_refs, dependencies,
                                                  failing)
    /\ pc' = IF final_script'.raised THEN "crashed" ELSE "done"
    /\ UNCHANGED <<uploaded_files, idx, combined_named_refs, errors, dependencies,
                   failing, rows, formula, once, twice>>

\* simplify_formula applied to a formula text
Normalize ==
    /\ pc = "normalize"
    /\ once' = simplify_formula(formula)
    /\ pc' = "normalized"
    /\ UNCHANGED <<uploaded_files, idx, combined_named_refs, errors, dependencies,
                   failing, rows, final_script, formula, twice>>

\* simplify_formula applied to its own result
NormalizeAgain ==
    /\ pc = "normalized"
    /\ twice' = simplify_formula(once)
    /\ pc' = "renormalized"
    /\ UNCHANGED <<uploaded_files, idx, combined_named_refs, errors, dependencies,
                   failing, rows, final_script, formula, once>>

Next ==
    \/ NothingUploaded
    \/ ReadFile
    \/ NoReferences
    \/ FindDependencies
    \/ GenerateAiOutputs
    \/ GenerateEndToEndPython

NextNormalize == Normalize \/ NormalizeAgain

Spec == Init /\ [][Next]_vars

SpecSingle == InitSingle /\ [][Next]_vars

SpecExtract == InitExtract /\ [][ReadFile]_vars

SpecNormalize == InitNormalize /\ [][NextNormalize]_vars

-----------------------------------------------------------------------------
(* Properties *)

AfterDependencies == pc \in {"explain", "script", "done", "crashed"}

\* the references target depends on
DependsOn(deps, target) == Range(GetOr(deps, target, <<>>))

\* what is reached from the labels of S along dependency edges, in n steps
RECURSIVE Reached(_, _, _)
Reached(deps, S, n) ==
    IF n = 0 THEN S
    ELSE Reached(deps, S \cup UNION {DependsOn(deps, a) : a \in S}, n - 1)

HasCycle(deps) ==
    \E a \in KeySet(deps) :
        a \in Reached(deps, DependsOn(deps, a), Len(deps))

IndexOf(order, k) == CHOOSE i \in 1..Len(order) : order[i] = k

\* order holds every key of named_refs exactly once, every dependency before
\* the reference that depends on it
IsEvaluationOrder(order, named_refs, deps) ==
    /\ Len(order) = Len(named_refs)
    /\ Range(order) = KeySet(named_refs)
    /\ \A target \in KeySet(named_refs) : \A source \in DependsOn(deps, target) :
          IndexOf(order, source) < IndexOf(order, target)

\* C1: when the graph find_dependencies built has no cycle, topological_sort
\* of it holds every reference key exactly once, every source of an edge
\* strictly before its target.
C1_TopologicalOrder ==
    (AfterDependencies /\ ~HasCycle(dependencies))
        => IsEvaluationOrder(topological_sort(dependencies), combined_named_refs,
                             dependencies)

\* C2: when the dependency graph has a cycle, sequencing reports the cycle
\* instead of returning an order: generate_end_to_end_python does not return
\* a script built from a partial order.  (An exception is the only way the
\* two functions have to report anything but a result.)
C2_CycleReported ==
    HasCycle(dependencies) => ~(pc = "done" /\ ~final_script.raised)

\* C3: the dependency graph has exactly one entry for every key of the
\* reference mapping, and no other key.
C3_GraphComplete ==
    AfterDependencies
        => /\ KeySet(dependencies) = KeySet(combined_named_refs)
           /\ Len(dependencies) = Len(combined_named_refs)

\* what extract_named_references returns for an uploaded file
RefsOf(file) ==
    IF file.readable THEN extract_named_references(file.wb, file.name).named_refs
    ELSE <<>>

LabelsOf(file) == KeySet(RefsOf(file))

\* C4: when two uploaded workbooks define the same label, the combined
\* mapping keeps one reference identity per source file.  (The merge loop
\* builds no collision report, so keeping both is the only way to comply.)
C4_CollisionKeepsBoth ==
    (pc # "merge" \/ idx = Len(uploaded_files))
        => \A i, j \in 1..Len(uploaded_files) :
              \A label \in LabelsOf(uploaded_files[i]) \cap LabelsOf(uploaded_files[j]) :
                 i < j =>
                    \E m, n \in 1..Len(combined_named_refs) :
                        /\ m # n
                        /\ combined_named_refs[m][2] = Get(RefsOf(uploaded_files[i]), label)
                        /\ combined_named_refs[n][2] = Get(RefsOf(uploaded_files[j]), label)

UpperSeq == <<"A", "B", "C", "D", "E", "F", "G", "H", "I", "J", "K", "L", "M",
              "N", "O", "P", "Q", "R", "S", "T", "U", "V", "W", "X", "Y", "Z">>
LowerSeq == <<"a", "b", "c", "d", "e", "f", "g", "h", "i", "j", "k", "l", "m",
              "n", "o", "p", "q", "r", "s", "t", "u", "v", "w", "x", "y", "z">>

Lower(c) ==
    IF c \in UpperCase THEN LowerSeq[CHOOSE i \in 1..Len(UpperSeq) : UpperSeq[i] = c]
    ELSE c

\* label occurs in text as a whole token, letter case ignored
TokenOccursIgnoringCase(label, text) ==
    \E i \in 1..Len(text) :
        /\ i + Len(label) - 1 <= Len(text)
        /\ \A k \in 1..Len(label) : Lower(text[i + k - 1]) = Lower(label[k])
        /\ WordBoundary(text, i)
        /\ WordBoundary(text, i + Len(label))

\* C5: for distinct references target and candidate, candidate is in
\* target's dependency list exactly when candidate's label occurs in
\* target's formula text as a whole token, compared case-insensitively.
C5_WholeTokenIgnoringCase ==
    AfterDependencies
        => \A target, candidate \in KeySet(combined_named_refs) :
              target # candidate =>
                 (candidate \in DependsOn(dependencies, target)
                    <=> TokenOccursIgnoringCase(
                            candidate,
                            Join(<<" ">>, Get(combined_named_refs, target).formulas)))

\* the workbook of the extraction run
ExtractedWorkbook == uploaded_files[1].wb

Visited(dn) == ~dn.is_external /\ dn.attr_text

\* C6: when a defined name has several destinations and all of them can be
\* read, every destination has its own entry in the returned mapping.
C6_EveryDestinationKept ==
    (idx = 1 /\ errors = <<>>)
        => \A i \in 1..Len(ExtractedWorkbook.defined_names) :
              LET dn == ExtractedWorkbook.defined_names[i]
              IN  ( /\ Visited(dn)
                    /\ Cardinality(Range(dn.destinations)) > 1
                    /\ \A d \in Range(dn.destinations) :
                          ~DestinationRaises(ExtractedWorkbook, d) )
                  => \A d \in Range(dn.destinations) :
                        \E m \in 1..Len(combined_named_refs) :
                            /\ combined_named_refs[m][2].sheet = d.sheet_name
                            /\ combined_named_refs[m][2].ref = d.ref

\* C7: simplify_formula is idempotent: applied to its own result it changes
\* nothing.
C7_NormalizerIdempotent == pc = "renormalized" => twice = once

\* C8: no reference is in its own dependency list.
C8_NoSelfEdge ==
    \A i \in 1..Len(dependencies) : dependencies[i][1] \notin Range(dependencies[i][2])

\* a reference with dependencies whose formula names its own label
C8_Witness ==
    /\ pc = "explain"
    /\ \E label \in KeySet(dependencies) :
          SearchLabel(label, Join(<<" ">>, Get(combined_named_refs, label).formulas))

\* the workbook without the destinations that cannot be resolved
WithoutFailingDestinations(wb) ==
    [wb EXCEPT !.defined_names =
        [i \in 1..Len(wb.defined_names) |->
            [wb.defined_names[i] EXCEPT !.destinations =
                SelectSeq(wb.defined_names[i].destinations,
                          LAMBDA d : ~DestinationRaises(wb, d))]]]

\* C9: a destination that fails to resolve is skipped and nothing else is
\* disturbed: no exception leaves extract_named_references, and the mapping
\* is the one the workbook without the failing destinations yields.
C9_FailureSkipsDestinationOnly ==
    idx = 1
        => /\ errors = <<>>
           /\ combined_named_refs =
                extract_named_references(WithoutFailingDestinations(ExtractedWorkbook),
                                         uploaded_files[1].name).named_refs

\* a name whose failing destination is followed by one that is recorded
C9_Witness ==
    /\ idx = 1
    /\ \E i \in 1..Len(ExtractedWorkbook.defined_names) :
          LET dn == ExtractedWorkbook.defined_names[i]
          IN  /\ Visited(dn)
              /\ Len(dn.destinations) = 2
              /\ DestinationRaises(ExtractedWorkbook, dn.destinations[1])
              /\ ~DestinationRaises(ExtractedWorkbook, dn.destinations[2])
              /\ Has(combined_named_refs, dn.name)
              /\ Get(combined_named_refs, dn.name).ref = dn.destinations[2].ref

\* what call_openai is to hand back for a prompt under the failing set
Expected(prompt) ==
    IF prompt \in failing THEN ErrorText(prompt) ELSE Completion(prompt)

\* the references a script assigns, in order
AssignedNames(lines) ==
    LET assigns == SelectSeq(lines, LAMBDA l : l.kind \in {"assign", "input"})
    IN  [i \in 1..Len(assigns) |-> assigns[i].name]

====
